---- MODULE Spec2Model ----
(***************************************************************************)
(* Workflow engine of app/engine.py: Graph (nodes, default edges, step     *)
(* resolution), WorkflowState (data, log, flags) and WorkflowEngine        *)
(* (graph registry, run registry, run_graph's step loop).                  *)
(*                                                                         *)
(* Encoding.  Every identity, tool name and message is a string.  Python's *)
(* None is the string None below; the empty string is itself.  A dict is a *)
(* sequence of <<key, value>> pairs in insertion order with unique keys.   *)
(* Log entries omit the timestamp.                                         *)
(***************************************************************************)
EXTENDS Integers, Sequences, FiniteSets, TLC

VARIABLES
    graphs,           \* WorkflowEngine.graphs: graph_id -> Graph object
    runs,             \* WorkflowEngine.runs: run_id -> WorkflowState object
    last,             \* outcome of the last Graph.add_node / add_edge call
    args,             \* arguments of the run_graph call in progress
    pc,               \* position inside run_graph
    current_node_id,  \* run_graph local
    iteration,        \* run_graph local
    visited_nodes,    \* run_graph local
    node,             \* run_graph local: the Node being executed
    exc,              \* exception in flight inside run_graph
    outcome,          \* how run_graph left: "none", "returned", "raised"
    state,            \* run_graph local: the run_id of its WorkflowState
    executed,         \* history: ids of the nodes whose step callable was invoked
    caller,           \* the dict the caller passed as initial_state, as it is now
    query,            \* what the last get_run_state call returned
    thr,              \* threads inside resolve_functions: position and locals
    assigned          \* history: <<thread, node id>> of every node.func assignment

vars == <<graphs, runs, last, args, pc, current_node_id, iteration,
          visited_nodes, node, exc, outcome, state, executed, caller, query,
          thr, assigned>>

runVars == <<runs, args, pc, current_node_id, iteration, visited_nodes,
             node, exc, outcome, state, executed, caller>>

auxVars == <<query, thr, assigned>>

-----------------------------------------------------------------------------
(* Python values *)

None == "<None>"

Falsy(v) == v = None \/ v = ""

STANDARD == "standard"
CONDITIONAL == "conditional"
LOOP == "loop"

NodeType == {STANDARD, CONDITIONAL, LOOP}

(* dict: insertion-ordered sequence of <<key, value>> *)
DictHas(d, k) == \E i \in 1..Len(d) : d[i][1] = k

DictGet(d, k, default) ==
    IF DictHas(d, k)
    THEN d[CHOOSE i \in 1..Len(d) : d[i][1] = k][2]
    ELSE default

DictSet(d, k, v) ==
    IF DictHas(d, k)
    THEN [i \in 1..Len(d) |-> IF d[i][1] = k THEN <<k, v>> ELSE d[i]]
    ELSE Append(d, <<k, v>>)

DictKeys(d) == [i \in 1..Len(d) |-> d[i][1]]

DictValues(d) == {d[i][2] : i \in 1..Len(d)}

KeysUnique(d) == \A i, j \in 1..Len(d) : d[i][1] = d[j][1] => i = j

-----------------------------------------------------------------------------
(* Node and Graph *)

\* ToolRegistry: the names it has registered; an absent registry (the
\* tool_registry argument left None) has present = FALSE.
ToolRegistry(names) == [present |-> TRUE, tools |-> names]
NoRegistry == [present |-> FALSE, tools |-> {}]

has_tool(reg, name) == name \in reg.tools

\* A step reference is a tool name (a str) or a callable.
StrFunc(name) == [tag |-> "str", v |-> name]
Callable(name) == [tag |-> "callable", v |-> name]
Invalid(v) == [tag |-> "other", v |-> v]

get_tool(reg, name) == Callable(name)

\* "not func_name" in create_graph: the key is absent (None) or the name is "".
FuncFalsy(f) == (f.tag = "other" /\ f.v = None) \/ (f.tag = "str" /\ f.v = "")

Node(node_id, name, func, node_type, condition_func, loop_condition_func) ==
    [id |-> node_id, name |-> name, func |-> func, node_type |-> node_type,
     condition_func |-> condition_func,
     loop_condition_func |-> loop_condition_func]

Graph(graph_id) ==
    [graph_id |-> graph_id, nodes |-> <<>>, edges |-> <<>>,
     tool_registry |-> NoRegistry]

\* The result of a call on a Graph: the exception raised (None if it
\* returned) and the Graph as the call left it.
Returned(g) == [exc |-> None, graph |-> g]
Raised(msg, g) == [exc |-> msg, graph |-> g]

add_node(g, node_id, name, func, node_type, condition_func, loop_condition_func) ==
    Returned([g EXCEPT !.nodes = DictSet(g.nodes, node_id,
        Node(node_id, name, func, node_type, condition_func,
             loop_condition_func))])

add_edge_no_target_check(g, from_node, to_node) ==
    IF ~DictHas(g.nodes, from_node)
    THEN Raised("Source node " \o from_node \o " not found", g)
    ELSE Returned([g EXCEPT !.edges = DictSet(g.edges, from_node, to_node)])

add_edge(g, from_node, to_node) ==
    IF ~DictHas(g.nodes, from_node)
    THEN Raised("Source node " \o from_node \o " not found", g)
    ELSE IF ~DictHas(g.nodes, to_node)
    THEN Raised("Target node " \o to_node \o " not found", g)
    ELSE Returned([g EXCEPT !.edges = DictSet(g.edges, from_node, to_node)])

get_next_node(g, current_node) == DictGet(g.edges, current_node, None)

UnresolvableWithoutRegistry(n, reg) ==
    \/ ~reg.present
    \/ n.func.tag = "str" /\ ~has_tool(reg, n.func.v)
    \/ n.func.tag = "other"

\* resolve_functions walks the nodes in insertion order and stops at the
\* first one it cannot resolve; the nodes before it stay resolved.
Unresolvable(n, reg) ==
    \/ n.func.tag = "str" /\ ~(reg.present /\ has_tool(reg, n.func.v))
    \/ n.func.tag = "other"

ResolveError(n) ==
    IF n.func.tag = "str"
    THEN "Tool '" \o n.func.v \o "' not found in registry"
    ELSE "Node " \o n.id \o " has invalid function"

ResolveNode(n, reg) ==
    IF n.func.tag = "str" THEN [n EXCEPT !.func = get_tool(reg, n.func.v)]
    ELSE n

resolve_functions(g, reg) ==
    LET bad == {i \in 1..Len(g.nodes) : Unresolvable(g.nodes[i][2], reg)}
        stop == IF bad = {} THEN Len(g.nodes) + 1
                ELSE CHOOSE i \in bad : \A j \in bad : i <= j
        done == [i \in 1..Len(g.nodes) |->
                    IF i < stop
                    THEN <<g.nodes[i][1], ResolveNode(g.nodes[i][2], reg)>>
                    ELSE g.nodes[i]]
        g2 == [g EXCEPT !.tool_registry = reg, !.nodes = done]
    IN  IF bad = {} THEN Returned(g2)
        ELSE Raised(ResolveError(g.nodes[stop][2]), g2)

get_start_node_first(g) ==
    IF Len(g.nodes) = 0 THEN None ELSE DictKeys(g.nodes)[1]

get_start_node(g) ==
    IF Len(g.nodes) = 0 THEN None
    ELSE LET target_nodes == DictValues(g.edges)
             keys == DictKeys(g.nodes)
             start_nodes == SelectSeq(keys, LAMBDA nid : nid \notin target_nodes)
         IN  IF Len(start_nodes) > 0 THEN start_nodes[1] ELSE keys[1]

-----------------------------------------------------------------------------
(* WorkflowEngine.create_graph *)

\* A node definition as create_graph reads it; a key the definition lacks
\* reads as None through dict.get.
NodeDef(name, func, type, condition_func, loop_condition_func) ==
    [name |-> name, func |-> func, type |-> type,
     condition_func |-> condition_func,
     loop_condition_func |-> loop_condition_func]

\* One pass of the node loop (lines 70-86) for the definition nodes[i].
AddNodeDef(g, nodes, i) ==
    LET node_id == nodes[i][1]
        node_def == nodes[i][2]
    IN  IF FuncFalsy(node_def.func)
        THEN Raised("Node " \o node_id \o " must have a 'func' field", g)
        ELSE IF node_def.type # None /\ node_def.type \notin NodeType
        THEN Raised("'" \o node_def.type \o "' is not a valid NodeType", g)
        ELSE add_node(g, node_id,
                IF node_def.name = None THEN node_id ELSE node_def.name,
                node_def.func,
                IF node_def.type = None THEN STANDARD ELSE node_def.type,
                node_def.condition_func, node_def.loop_condition_func)

\* The node loop over nodes[lo..hi], in order, stopping at the first raise
\* (split in halves to keep the evaluation shallow).
RECURSIVE AddNodes(_, _, _, _)
AddNodes(g, nodes, lo, hi) ==
    IF lo > hi THEN Returned(g)
    ELSE IF lo = hi THEN AddNodeDef(g, nodes, lo)
    ELSE LET mid == (lo + hi) \div 2
             r == AddNodes(g, nodes, lo, mid)
         IN  IF r.exc # None THEN r ELSE AddNodes(r.graph, nodes, mid + 1, hi)

\* The edge loop (lines 89-90) over edges[lo..hi], likewise.
RECURSIVE AddEdges(_, _, _, _)
AddEdges(g, edges, lo, hi) ==
    IF lo > hi THEN Returned(g)
    ELSE IF lo = hi THEN add_edge(g, edges[lo][1], edges[lo][2])
    ELSE LET mid == (lo + hi) \div 2
             r == AddEdges(g, edges, lo, mid)
         IN  IF r.exc # None THEN r ELSE AddEdges(r.graph, edges, mid + 1, hi)

create_graph_register_first(gs, graph_id, nodes, edges) ==
    LET n == AddNodes(Graph(graph_id), nodes, 1, Len(nodes))
        e == IF n.exc # None THEN n ELSE AddEdges(n.graph, edges, 1, Len(edges))
    IN  [exc |-> e.exc,
         graphs |-> [id \in DOMAIN gs \cup {graph_id} |->
                       IF id = graph_id THEN e.graph ELSE gs[id]]]

\* The engine's graph registry after create_graph(graph_id, nodes, edges),
\* and the exception it raised.
create_graph(gs, graph_id, nodes, edges) ==
    LET n == AddNodes(Graph(graph_id), nodes, 1, Len(nodes))
        e == IF n.exc # None THEN n ELSE AddEdges(n.graph, edges, 1, Len(edges))
    IN  IF e.exc # None THEN [exc |-> e.exc, graphs |-> gs]
        ELSE [exc |-> None,
              graphs |-> [id \in DOMAIN gs \cup {graph_id} |->
                            IF id = graph_id THEN e.graph ELSE gs[id]]]

-----------------------------------------------------------------------------
(* WorkflowState *)

\* Dicts compare by content but a write goes to the dict object, so a
\* WorkflowState records which object its data is (data_id) next to the
\* content (data).  CallerDict is the dict the caller of run_graph holds.
CallerDict == "initial_state"

dict_alias(id, run_id) == id

\* dict.copy(): a new dict object, named after the run that gets it
dict_copy(id, run_id) == "data of " \o run_id

WorkflowState(data_id, data) ==
    [data_id |-> data_id, data |-> data, current_node |-> None,
     execution_log |-> <<>>, completed |-> FALSE, error |-> None]

update(st, key, value) == [st EXCEPT !.data = [@ EXCEPT ![key] = value]]

log_front(st, node_id, message, result) ==
    [st EXCEPT !.execution_log =
        <<[node_id |-> node_id, message |-> message, result |-> result]>> \o @]

log(st, node_id, message, result) ==
    [st EXCEPT !.execution_log =
        Append(@, [node_id |-> node_id, message |-> message, result |-> result])]

-----------------------------------------------------------------------------
(* The callables a graph can name.  The engine treats them as opaque; each  *)
(* is a function of the WorkflowState it is handed.  A call yields the      *)
(* state as the callable left it, the value returned, and the message of    *)
(* the exception raised (None if it returned).                              *)

CallResult(st, ret, raised) == [state |-> st, ret |-> ret, exc |-> raised]

\* WorkflowState.get and WorkflowState.update on a data dict kept as a dict
\* (the code review workflow, whose keys may be absent).
get(st, key, default) == DictGet(st.data, key, default)

dict_update(st, key, value) == [st EXCEPT !.data = DictSet(@, key, value)]

\* The value of the key "code", by what the code review tools find in it:
\* its text is empty or not, it parses or not, the number of functions
\* ast.walk yields, the number of issues detect_issues lists and the average
\* cyclomatic complexity check_complexity computes.
Code(parses, functions, issues, avg) ==
    [text |-> "src", parses |-> parses, functions |-> functions,
     issues |-> issues, avg |-> avg]

\* state.get("code", "") when the key is absent
NoCode == [text |-> "", parses |-> TRUE, functions |-> 0, issues |-> 0, avg |-> 0]

Max(a, b) == IF a >= b THEN a ELSE b

\* tools.py extract_functions
extract_functions(st) ==
    LET code == get(st, "code", NoCode)
    IN  IF code.text = ""
        THEN CallResult([st EXCEPT !.error = "No code provided"], None, None)
        ELSE IF ~code.parses
        THEN CallResult([st EXCEPT !.error = "Syntax error in code"], None, None)
        ELSE CallResult(
                dict_update(dict_update(st, "functions", code.functions),
                            "functions_count", code.functions),
                "result", None)

\* tools.py check_complexity
check_complexity(st) ==
    LET functions == get(st, "functions", 0)
        code == get(st, "code", NoCode)
    IN  IF functions = 0
        THEN CallResult(
                [st EXCEPT !.error =
                    "No functions found. Run extract_functions first."],
                None, None)
        ELSE IF ~code.parses
        THEN CallResult([st EXCEPT !.error = "Error checking complexity"],
                        None, None)
        ELSE CallResult(
                dict_update(dict_update(dict_update(st, "functions", functions),
                    "avg_complexity", code.avg), "max_complexity", code.avg),
                "result", None)

\* tools.py detect_issues
detect_issues(st) ==
    LET code == get(st, "code", NoCode)
    IN  IF code.text = ""
        THEN CallResult([st EXCEPT !.error = "No code provided"], None, None)
        ELSE CallResult(
                dict_update(dict_update(st, "issues", code.issues),
                            "issues_count", code.issues),
                "result", None)

\* tools.py suggest_improvements: the quality score it computes and stores
suggest_improvements(st) ==
    LET issues_count == get(st, "issues", 0)
        avg_complexity == get(st, "avg_complexity", 0)
        complexity_penalty == Max(0, (avg_complexity - 5) * 2)
        quality_score == Max(0, 100 - (issues_count * 5) - complexity_penalty)
    IN  CallResult(
            dict_update(dict_update(dict_update(st, "suggestions", "list"),
                "quality_score", quality_score), "suggestions_count", 0),
            "result", None)

\* workflows.py: the step of loop_check, a lambda that logs and returns
\* what log returns
loop_check_step(st) ==
    CallResult(log(st, "loop_check", "Checking if quality threshold is met", None),
               None, None)

should_continue_loop_inclusive(st) ==
    LET quality_score == get(st, "quality_score", 0)
        threshold == get(st, "quality_threshold", 80)
        loop_iteration == get(st, "loop_iteration", 0)
        max_iter == get(st, "max_iterations", 5)
        should_continue == quality_score < threshold /\ loop_iteration <= max_iter
    IN  IF should_continue
        THEN CallResult(
                log(dict_update(st, "loop_iteration", loop_iteration + 1), "loop",
                    "Loop continuing", None),
                TRUE, None)
        ELSE CallResult(log(st, "loop", "Loop terminating", None), FALSE, None)

\* workflows.py should_continue_loop
should_continue_loop(st) ==
    LET quality_score == get(st, "quality_score", 0)
        threshold == get(st, "quality_threshold", 80)
        loop_iteration == get(st, "loop_iteration", 0)
        max_iter == get(st, "max_iterations", 5)
        should_continue == quality_score < threshold /\ loop_iteration < max_iter
    IN  IF should_continue
        THEN CallResult(
                log(dict_update(st, "loop_iteration", loop_iteration + 1), "loop",
                    "Loop continuing: iteration=" \o ToString(loop_iteration + 1)
                        \o ", quality_score=" \o ToString(quality_score)
                        \o ", threshold=" \o ToString(threshold), None),
                TRUE, None)
        ELSE CallResult(
                log(st, "loop",
                    "Loop terminating: quality_score=" \o ToString(quality_score)
                        \o ", threshold=" \o ToString(threshold)
                        \o ", iteration=" \o ToString(loop_iteration), None),
                FALSE, None)

\* The tools tools.py registers, and the step callables of the code review
\* workflow.
ReviewTools ==
    {"extract_functions", "check_complexity", "detect_issues",
     "suggest_improvements"}

ReviewCall(name, st) ==
    CASE name = "extract_functions" -> extract_functions(st)
      [] name = "check_complexity" -> check_complexity(st)
      [] name = "detect_issues" -> detect_issues(st)
      [] name = "suggest_improvements" -> suggest_improvements(st)
      [] OTHER -> loop_check_step(st)

\* Step callables, registered as tools under their names.
\*   inc:  x := x + 1, returns None
\*   res:  x := x + 1, returns a non-empty result
\*   boom: x := x + 1, then raises
Tools == {"inc", "res", "boom"}

StepCall(f, st) ==
    LET st2 == update(st, "x", st.data["x"] + 1)
    IN  CASE f.v \in ReviewTools \cup {"lambda"} -> ReviewCall(f.v, st)
          [] f.v = "inc" -> CallResult(st2, None, None)
          [] f.v = "res" -> CallResult(st2, "result", None)
          [] OTHER -> CallResult(st2, None, "boom")

\* Loop-continuation callables.
\*   lt_k:      true while n < k, counting n up when it continues (the shape
\*              of should_continue_loop in app/workflows.py)
\*   always:    true
\*   loop_boom: raises
LoopFns == {"lt_k", "always", "loop_boom"}

LoopCall(fn, st) ==
    CASE fn = "should_continue_loop" -> should_continue_loop(st)
      [] fn = "lt_k" ->
            IF st.data["n"] < st.data["k"]
            THEN CallResult(update(st, "n", st.data["n"] + 1), TRUE, None)
            ELSE CallResult(st, FALSE, None)
      [] fn = "always" -> CallResult(st, TRUE, None)
      [] OTHER -> CallResult(st, FALSE, "loop_boom")

\* Routing callables: to_<v> returns the string v, to_none returns None,
\* to_empty returns "", route_boom raises.
RouteFns == {"to_1", "to_2", "to_ghost", "to_none", "to_empty", "route_boom"}

RouteCall(fn, st) ==
    CASE fn = "to_1" -> CallResult(st, "1", None)
      [] fn = "to_2" -> CallResult(st, "2", None)
      [] fn = "to_ghost" -> CallResult(st, "ghost", None)
      [] fn = "to_none" -> CallResult(st, None, None)
      [] fn = "to_empty" -> CallResult(st, "", None)
      [] OTHER -> CallResult(st, None, "route_boom")

-----------------------------------------------------------------------------
(* WorkflowEngine.run_graph, one action per block of statements *)

max_iterations == 1000

\* exc: where the exception in flight was raised, its message, and how many
\* step callables had been invoked when it was raised.
NoExc == [at |-> "", msg |-> None, calls |-> 0]
Exc(at, msg, calls) == [at |-> at, msg |-> msg, calls |-> calls]

NoArgs == [graph_id |-> None, initial_state |-> <<>>, start_node |-> None,
           tool_registry |-> NoRegistry]

St == runs[state]
graph == graphs[args.graph_id]
TheNode == DictGet(graph.nodes, node, None)

\* The WorkflowState of the run in progress becomes st; a write to its
\* data dict shows in every reference to the same dict object.
SetState(st) ==
    /\ runs' = [id \in DOMAIN runs |->
                  IF id = state THEN st
                  ELSE IF runs[id].data_id = st.data_id
                  THEN [runs[id] EXCEPT !.data = st.data]
                  ELSE runs[id]]
    /\ caller' = IF st.data_id = CallerDict THEN st.data ELSE caller

NewRunIdFixed == "run1"

NewRunId == "run" \o ToString(Cardinality(DOMAIN runs) + 1)

CallStateFirst(graph_id, initial_state, start_node, tool_registry) ==
    /\ pc = "idle"
    /\ args' = [graph_id |-> graph_id, initial_state |-> initial_state,
                start_node |-> start_node, tool_registry |-> tool_registry]
    /\ caller' = initial_state
    /\ state' = NewRunId
    /\ runs' = [id \in DOMAIN runs \cup {NewRunId} |->
                  IF id = NewRunId
                  THEN WorkflowState(dict_copy(CallerDict, NewRunId),
                                     initial_state)
                  ELSE runs[id]]
    /\ IF graph_id \notin DOMAIN graphs
       THEN /\ exc' = [at |-> "lookup",
                       msg |-> "Graph " \o graph_id \o " not found", calls |-> 0]
            /\ outcome' = "raised"
            /\ pc' = "done"
       ELSE /\ pc' = "resolve"
            /\ UNCHANGED <<exc, outcome>>
    /\ UNCHANGED <<graphs, last, auxVars, current_node_id, iteration,
                   visited_nodes, node, executed>>

\* lines 103-108
Call(graph_id, initial_state, start_node, tool_registry) ==
    /\ pc = "idle"
    /\ args' = [graph_id |-> graph_id, initial_state |-> initial_state,
                start_node |-> start_node, tool_registry |-> tool_registry]
    /\ caller' = initial_state
    /\ IF graph_id \notin DOMAIN graphs
       THEN /\ exc' = [at |-> "lookup",
                       msg |-> "Graph " \o graph_id \o " not found", calls |-> 0]
            /\ outcome' = "raised"
            /\ pc' = "done"
            /\ UNCHANGED <<runs, state>>
       ELSE /\ state' = NewRunId
            /\ runs' = [id \in DOMAIN runs \cup {NewRunId} |->
                          IF id = NewRunId
                          THEN WorkflowState(dict_copy(CallerDict, NewRunId),
                                             initial_state)
                          ELSE runs[id]]
            /\ pc' = "resolve"
            /\ UNCHANGED <<exc, outcome>>
    /\ UNCHANGED <<graphs, last, auxVars, current_node_id, iteration, visited_nodes,
                   node, executed>>

\* line 111
Resolve ==
    /\ pc = "resolve"
    /\ LET r == resolve_functions(graph, args.tool_registry)
       IN  /\ graphs' = [graphs EXCEPT ![args.graph_id] = r.graph]
           /\ IF r.exc # None
              THEN /\ exc' = Exc("resolve", r.exc, Len(executed))
                   /\ outcome' = "raised"
                   /\ pc' = "done"
              ELSE /\ pc' = "start"
                   /\ UNCHANGED <<exc, outcome>>
    /\ UNCHANGED <<runs, caller, last, auxVars, args, current_node_id, iteration,
                   visited_nodes, node, state, executed>>

\* lines 113-124
SelectStart ==
    /\ pc = "start"
    /\ LET start == IF Falsy(args.start_node) THEN get_start_node(graph)
                    ELSE args.start_node
       IN  /\ current_node_id' = start
           /\ IF Falsy(start)
              THEN /\ SetState([St EXCEPT !.error = "No start node found",
                                          !.completed = TRUE])
                   /\ outcome' = "returned"
                   /\ pc' = "done"
                   /\ UNCHANGED <<visited_nodes, iteration>>
              ELSE /\ SetState(log(St, "engine",
                          "Starting workflow from node: " \o start, None))
                   /\ visited_nodes' = {}
                   /\ iteration' = 0
                   /\ pc' = "loop"
                   /\ UNCHANGED outcome
    /\ UNCHANGED <<graphs, last, auxVars, args, node, exc, state, executed>>

WhileCondOffByOne == ~Falsy(current_node_id) /\ iteration <= max_iterations

WhileCondNoCap == ~Falsy(current_node_id)

\* line 127
WhileCond == ~Falsy(current_node_id) /\ iteration < max_iterations

NodeNotFoundUnnamed(node_id) == "Node not found in graph"

\* line 131
NodeNotFound(node_id) == "Node " \o node_id \o " not found in graph"

\* lines 127-138: the loop test holds; enter the node
Enter ==
    /\ pc = "loop"
    /\ WhileCond
    /\ iteration' = iteration + 1
    /\ IF ~DictHas(graph.nodes, current_node_id)
       THEN /\ SetState([St EXCEPT !.error = NodeNotFound(current_node_id)])
            /\ pc' = "cap"
            /\ UNCHANGED node
       ELSE /\ node' = current_node_id
            /\ SetState(log([St EXCEPT !.current_node = current_node_id],
                    current_node_id,
                    "Executing node: "
                        \o DictGet(graph.nodes, current_node_id, None).name,
                    None))
            /\ pc' = "invoke"
    /\ UNCHANGED <<graphs, last, auxVars, args, current_node_id, visited_nodes, exc,
                   outcome, state, executed>>

\* line 127: the loop test fails
WhileExit ==
    /\ pc = "loop"
    /\ ~WhileCond
    /\ pc' = "cap"
    /\ UNCHANGED <<graphs, runs, caller, last, auxVars, args, current_node_id, iteration,
                   visited_nodes, node, exc, outcome, state, executed>>

CallFuncDetached(f, st) ==
    IF f.tag = "callable"
    THEN StepCall(f, [st EXCEPT !.data = args.initial_state])
    ELSE CallResult(st, None, "'str' object is not callable")

\* A call of a step reference: a str is not callable.
CallFunc(f, st) ==
    IF f.tag = "callable" THEN StepCall(f, st)
    ELSE CallResult(st, None, "'str' object is not callable")

\* lines 139-142
Invoke ==
    /\ pc = "invoke"
    /\ executed' = Append(executed, node)
    /\ LET r == CallFunc(TheNode.func, St)
       IN  IF r.exc # None
           THEN /\ SetState(r.state)
                /\ exc' = Exc("step", r.exc, Len(executed) + 1)
                /\ pc' = "except"
           ELSE /\ SetState(IF ~Falsy(r.ret)
                            THEN log(r.state, node, "Node completed", r.ret)
                            ELSE r.state)
                /\ pc' = "route"
                /\ UNCHANGED exc
    /\ UNCHANGED <<graphs, last, auxVars, args, current_node_id, iteration,
                   visited_nodes, node, outcome, state>>

HasLoopConditionByType(n) == n.node_type = LOOP

\* line 145
HasLoopCondition(n) == n.node_type = LOOP /\ n.loop_condition_func # None

\* line 158
HasRouting(n) == n.node_type = CONDITIONAL /\ n.condition_func # None

LoopNextFollowsEdge(should_continue, default) == default

\* lines 147-154: the node after a loop node, default being its default
\* successor
LoopNext(should_continue, default) == IF should_continue THEN default ELSE None

\* lines 144-155: a loop node with a continuation callable
RouteLoop ==
    /\ pc = "route"
    /\ HasLoopCondition(TheNode)
    /\ LET r == LoopCall(TheNode.loop_condition_func, St)
       IN  IF r.exc # None
           THEN /\ SetState(r.state)
                /\ exc' = Exc("loop", r.exc, Len(executed))
                /\ pc' = "except"
                /\ UNCHANGED current_node_id
           ELSE /\ SetState(log(r.state, node,
                        IF r.ret THEN "Loop condition met, continuing loop"
                        ELSE "Loop condition not met, exiting loop", None))
                /\ current_node_id' =
                      LoopNext(r.ret, get_next_node(graph, current_node_id))
                /\ pc' = "loop"
                /\ UNCHANGED exc
    /\ UNCHANGED <<graphs, last, auxVars, args, iteration, visited_nodes, node,
                   outcome, state, executed>>

AdvanceRejectRevisit(st, next_node) ==
    /\ current_node_id' = next_node
    /\ IF Falsy(next_node)
       THEN /\ SetState([log(st, "engine", "Workflow completed", None)
                            EXCEPT !.completed = TRUE])
            /\ pc' = "cap"
            /\ UNCHANGED visited_nodes
       ELSE IF next_node \in visited_nodes /\ TheNode.node_type # LOOP
       THEN /\ SetState([st EXCEPT !.error = "Infinite loop detected",
                                   !.completed = TRUE])
            /\ pc' = "cap"
            /\ UNCHANGED visited_nodes
       ELSE /\ SetState(st)
            /\ visited_nodes' = visited_nodes \cup {next_node}
            /\ pc' = "loop"

\* lines 167-176, with next_node the node routing chose and st the state
\* routing left
Advance(st, next_node) ==
    /\ current_node_id' = next_node
    /\ IF Falsy(next_node)
       THEN /\ SetState([log(st, "engine", "Workflow completed", None)
                            EXCEPT !.completed = TRUE])
            /\ pc' = "cap"
            /\ UNCHANGED visited_nodes
       ELSE /\ SetState(st)
            /\ visited_nodes' =
                 (IF next_node \in visited_nodes /\ TheNode.node_type # LOOP
                  THEN {} ELSE visited_nodes) \cup {next_node}
            /\ pc' = "loop"

PickRouteAlways(ret, default) == ret

\* lines 160-163: the node a routing result ret selects, default being the
\* default successor
PickRoute(ret, default) ==
    IF ~Falsy(ret) /\ DictHas(graph.nodes, ret) THEN ret ELSE default

\* lines 157-163 and 167-176: a conditional node with a routing callable
RouteConditional ==
    /\ pc = "route"
    /\ ~HasLoopCondition(TheNode)
    /\ HasRouting(TheNode)
    /\ LET r == RouteCall(TheNode.condition_func, St)
       IN  IF r.exc # None
           THEN /\ SetState(r.state)
                /\ exc' = Exc("route", r.exc, Len(executed))
                /\ pc' = "except"
                /\ UNCHANGED <<current_node_id, visited_nodes>>
           ELSE /\ Advance(r.state,
                      PickRoute(r.ret, get_next_node(graph, current_node_id)))
                /\ UNCHANGED exc
    /\ UNCHANGED <<graphs, last, auxVars, args, iteration, node, outcome, state,
                   executed>>

\* lines 164-176: every other node follows its default edge
RouteDefault ==
    /\ pc = "route"
    /\ ~HasLoopCondition(TheNode)
    /\ ~HasRouting(TheNode)
    /\ Advance(St, get_next_node(graph, current_node_id))
    /\ UNCHANGED <<graphs, last, auxVars, args, iteration, node, exc, outcome, state,
                   executed>>

\* lines 178-180 and 187
CapCheck ==
    /\ pc = "cap"
    /\ IF iteration >= max_iterations
       THEN SetState([St EXCEPT !.error = "Maximum iterations reached",
                                !.completed = TRUE])
       ELSE UNCHANGED <<runs, caller>>
    /\ outcome' = "returned"
    /\ pc' = "done"
    /\ UNCHANGED <<graphs, last, auxVars, args, current_node_id, iteration,
                   visited_nodes, node, exc, state, executed>>

ExceptSetErrorRollback ==
    /\ pc = "except"
    /\ SetState([St EXCEPT !.error = exc.msg, !.completed = TRUE,
                           !.data = args.initial_state])
    /\ pc' = "except_log"
    /\ UNCHANGED <<graphs, last, auxVars, args, current_node_id, iteration,
                   visited_nodes, node, exc, outcome, state, executed>>

\* lines 182-184
ExceptSetError ==
    /\ pc = "except"
    /\ SetState([St EXCEPT !.error = exc.msg, !.completed = TRUE])
    /\ pc' = "except_log"
    /\ UNCHANGED <<graphs, last, auxVars, args, current_node_id, iteration,
                   visited_nodes, node, exc, outcome, state, executed>>

\* lines 185 and 187
ExceptLog ==
    /\ pc = "except_log"
    /\ SetState(log(St, "engine", "Error: " \o exc.msg, None))
    /\ outcome' = "returned"
    /\ pc' = "done"
    /\ UNCHANGED <<graphs, last, auxVars, args, current_node_id, iteration,
                   visited_nodes, node, exc, state, executed>>

-----------------------------------------------------------------------------
(* The graphs and inputs explored *)

MaxChain == 3
MaxK == 2

\* The chain "1" -> "2" -> ... -> "n" of standard nodes running inc.
ChainNodes(n) ==
    [i \in 1..n |-> <<ToString(i),
        NodeDef(None, StrFunc("inc"), STANDARD, None, None)>>]

ChainEdges(n) ==
    [i \in 1..(IF n = 0 THEN 0 ELSE n - 1) |-> <<ToString(i), ToString(i + 1)>>]

ChainDef(n) == [nodes |-> ChainNodes(n), edges |-> ChainEdges(n)]

ChainGraphs == {ChainDef(n) : n \in 0..MaxChain}

\* Chains one node shorter than the iteration cap, as long, and one longer.
LongChains ==
    {ChainDef(n) : n \in {max_iterations - 1, max_iterations, max_iterations + 1}}

\* What the head node "1" of a small graph can be: its type and callables.
HeadKinds ==
    {[type |-> STANDARD, condition_func |-> None, loop_condition_func |-> None]}
    \cup {[type |-> CONDITIONAL, condition_func |-> f,
           loop_condition_func |-> None] : f \in RouteFns \cup {None}}
    \cup {[type |-> LOOP, condition_func |-> None,
           loop_condition_func |-> f] : f \in LoopFns \cup {None}}

HeadFuncs(kind) ==
    IF kind.type = STANDARD THEN {"inc", "res", "boom", "ghost"} ELSE {"inc"}

TailFuncs(kind) ==
    IF kind.type = STANDARD THEN {"inc", "boom"} ELSE {"inc"}

EdgeDict(e1, e2) ==
    (IF e1 = None THEN <<>> ELSE << <<"1", e1>> >>)
    \o (IF e2 = None THEN <<>> ELSE << <<"2", e2>> >>)

\* One node "1" with or without a self edge; or "1" and a standard tail "2",
\* with or without the edges "1" -> "2" and "2" -> "1".
SmallGraphs ==
    {[nodes |-> << <<"1", NodeDef(None, StrFunc(f1), kind.type,
                        kind.condition_func, kind.loop_condition_func)>> >>,
      edges |-> EdgeDict(e1, None)] :
        <<kind, f1, e1>> \in
            {t \in HeadKinds \X {"inc", "res", "boom", "ghost"} \X {None, "1"} :
                t[2] \in HeadFuncs(t[1])}}
    \cup
    {[nodes |-> << <<"1", NodeDef(None, StrFunc(t[2]), t[1].type,
                        t[1].condition_func, t[1].loop_condition_func)>>,
                   <<"2", NodeDef(None, StrFunc(t[3]), STANDARD, None, None)>> >>,
      edges |-> EdgeDict(t[4], t[5])] :
        t \in {u \in HeadKinds \X {"inc", "res", "boom", "ghost"}
                    \X {"inc", "boom"} \X {None, "2"} \X {None, "1"} :
                 u[2] \in HeadFuncs(u[1]) /\ u[3] \in TailFuncs(u[1])}}

GraphDefs == ChainGraphs \cup SmallGraphs

\* The data run_graph is started with: x counts step calls, n counts loop
\* continuations, k is the number of continuations lt_k grants.
InitialState(k) == [x |-> 0, n |-> 0, k |-> k]

UsesK(g) == \E i \in 1..Len(g.nodes) : g.nodes[i][2].loop_condition_func = "lt_k"

\* The values of x a run starts from: a graph without edges is also run
\* from x = 1.
InitialX(g) == IF g.edges = <<>> THEN {0, 1} ELSE {0}

InitialStates(g) ==
    {[InitialState(k) EXCEPT !.x = x] :
        k \in (IF UsesK(g) THEN 0..MaxK ELSE {0}), x \in InitialX(g)}

StartNodes == {None, "2", "ghost"}

Registries == {NoRegistry, ToolRegistry(Tools)}

\* No get_run_state call made yet.
NoQuery == [run_id |-> None, found |-> FALSE, ended |-> FALSE, result |-> None]

\* The threads that can be inside resolve_functions at the same time, and a
\* thread that has not entered it: i is its position in nodes.values(), tool
\* the callable get_tool handed it, exc the message of what it raised.
Threads == {"A", "B"}

IdleThread == [pc |-> "idle", i |-> 0, tool |-> None, exc |-> None]

IdleRun ==
    /\ runs = <<>>
    /\ args = NoArgs
    /\ pc = "idle"
    /\ current_node_id = None
    /\ iteration = 0
    /\ visited_nodes = {}
    /\ node = None
    /\ exc = NoExc
    /\ outcome = "none"
    /\ state = None
    /\ executed = <<>>
    /\ caller = <<>>
    /\ query = NoQuery
    /\ thr = [t \in Threads |-> IdleThread]
    /\ assigned = <<>>

NoCall == [op |-> "none", node_id |-> None, to_node |-> None, exc |-> None]

\* An engine with one graph registered by create_graph, no run started.
Init ==
    /\ \E d \in GraphDefs :
          graphs = create_graph(<<>>, "g", d.nodes, d.edges).graphs
    /\ last = NoCall
    /\ IdleRun

Run ==
    \E graph_id \in {"g", "nope"}, start_node \in StartNodes,
       tool_registry \in Registries :
        \E initial_state \in
              (IF graph_id \in DOMAIN graphs
               THEN InitialStates(graphs[graph_id])
               ELSE {InitialState(0)}) :
            Call(graph_id, initial_state, start_node, tool_registry)

Next ==
    \/ Run
    \/ Resolve
    \/ SelectStart
    \/ Enter
    \/ WhileExit
    \/ Invoke
    \/ RouteLoop
    \/ RouteConditional
    \/ RouteDefault
    \/ CapCheck
    \/ ExceptSetError
    \/ ExceptLog

Spec == Init /\ [][Next]_vars

-----------------------------------------------------------------------------
(* Runs of the long chains, from the inferred start node.  A chain has only *)
(* standard nodes and inc never raises, so the loop-routing, conditional    *)
(* routing and exception-handler actions are never enabled.                 *)

InitChain ==
    /\ \E d \in LongChains :
          graphs = create_graph(<<>>, "g", d.nodes, d.edges).graphs
    /\ last = NoCall
    /\ IdleRun

ChainState == InitialState(0)

ChainRegistry == ToolRegistry(Tools)

RunChain == Call("g", ChainState, None, ChainRegistry)

NextChain ==
    \/ RunChain
    \/ Resolve
    \/ SelectStart
    \/ Enter
    \/ WhileExit
    \/ Invoke
    \/ RouteDefault
    \/ CapCheck

SpecChain == InitChain /\ [][NextChain]_vars

-----------------------------------------------------------------------------
(* Runs of the code review workflow of app/workflows.py, registered as      *)
(* code_review_agent and run through the API with the global tool registry  *)
(* and no start node.  Its steps and its continuation callable do not       *)
(* raise on the inputs explored and it has no conditional node, so the      *)
(* conditional routing and exception-handler actions are never enabled.     *)

MaxLoop == 2

\* workflows.py lines 39-66
ReviewNodes ==
    << <<"extract", NodeDef("Extract Functions", StrFunc("extract_functions"),
                            STANDARD, None, None)>>,
       <<"complexity", NodeDef("Check Complexity", StrFunc("check_complexity"),
                               STANDARD, None, None)>>,
       <<"detect", NodeDef("Detect Issues", StrFunc("detect_issues"),
                           STANDARD, None, None)>>,
       <<"suggest", NodeDef("Suggest Improvements",
                            StrFunc("suggest_improvements"),
                            STANDARD, None, None)>>,
       <<"loop_check", NodeDef("Check Quality Loop", Callable("lambda"), LOOP,
                               None, "should_continue_loop")>> >>

\* workflows.py lines 69-75
ReviewEdges ==
    << <<"extract", "complexity">>, <<"complexity", "detect">>,
       <<"detect", "suggest">>, <<"suggest", "loop_check">>,
       <<"loop_check", "extract">> >>

\* The code submitted: none, empty, unparsable, without functions, and
\* with one function, few or many issues, low or high complexity.
ReviewCodes ==
    {NoCode, Code(FALSE, 0, 0, 0), Code(TRUE, 0, 1, 0)}
    \cup {Code(TRUE, 1, i, c) : i \in {0, 5}, c \in {1, 8}}

CodeKey == {<<>>} \cup {<< <<"code", c>> >> : c \in ReviewCodes}

ThresholdKey == {<<>>} \cup {<< <<"quality_threshold", t>> >> : t \in {70, 100}}

MaxIterationsKey ==
    {<<>>} \cup {<< <<"max_iterations", m>> >> : m \in (0 - 1)..MaxLoop}

LoopIterationKey ==
    {<<>>} \cup {<< <<"loop_iteration", l>> >> : l \in 0..(MaxLoop + 1)}

\* The initial_state of a run request: each key present or absent.
ReviewStates ==
    {c \o t \o m \o l :
        c \in CodeKey, t \in ThresholdKey, m \in MaxIterationsKey,
        l \in LoopIterationKey}

ReviewRegistry == ToolRegistry(ReviewTools)

InitReview ==
    /\ graphs = create_graph(<<>>, "code_review_agent", ReviewNodes,
                             ReviewEdges).graphs
    /\ last = NoCall
    /\ IdleRun

RunReview ==
    \E initial_state \in ReviewStates :
        Call("code_review_agent", initial_state, None, ReviewRegistry)

NextReview ==
    \/ RunReview
    \/ Resolve
    \/ SelectStart
    \/ Enter
    \/ WhileExit
    \/ Invoke
    \/ RouteLoop
    \/ RouteDefault
    \/ CapCheck

SpecReview == InitReview /\ [][NextReview]_vars

-----------------------------------------------------------------------------
(* Building a Graph: add_node and add_edge called in any order on the graph *)
(* registered by create_graph("g", {}, {}).                                 *)

GraphNodeIds == {"1", "2"}
EdgeEnds == {"1", "2", "ghost"}

InitGraph ==
    /\ graphs = create_graph(<<>>, "g", <<>>, <<>>).graphs
    /\ last = NoCall
    /\ IdleRun

AddNodeCall(node_id, name, func, node_type) ==
    LET r == add_node(graphs["g"], node_id, name, func, node_type, None, None)
    IN  /\ graphs' = [graphs EXCEPT !["g"] = r.graph]
        /\ last' = [op |-> "add_node", node_id |-> node_id, to_node |-> None,
                    exc |-> r.exc]
        /\ UNCHANGED <<runVars, auxVars>>

AddEdgeCall(from_node, to_node) ==
    LET r == add_edge(graphs["g"], from_node, to_node)
    IN  /\ graphs' = [graphs EXCEPT !["g"] = r.graph]
        /\ last' = [op |-> "add_edge", node_id |-> from_node,
                    to_node |-> to_node, exc |-> r.exc]
        /\ UNCHANGED <<runVars, auxVars>>

AddNodeAny ==
    \E node_id \in GraphNodeIds, name \in {"first", "second"},
       func \in {StrFunc("inc"), StrFunc("res")},
       node_type \in {STANDARD, CONDITIONAL} :
        AddNodeCall(node_id, name, func, node_type)

AddEdgeAny ==
    \E from_node \in EdgeEnds, to_node \in EdgeEnds :
        AddEdgeCall(from_node, to_node)

NextGraph ==
    \/ AddNodeAny
    \/ AddEdgeAny

SpecGraph == InitGraph /\ [][NextGraph]_vars

-----------------------------------------------------------------------------
(* An engine in use: graphs registered between runs, runs one after the     *)
(* other from the same caller's dict, and get_run_state queries at any      *)
(* time.  The graphs have no cycle of default edges.                        *)

MaxRuns == 2

\* line 191: dict.get(run_id)
get_run_state(rs, run_id) == IF run_id \in DOMAIN rs THEN rs[run_id] ELSE None

\* "1" -> "2" plain; a loop node on itself; a conditional node jumping to a
\* failing step; a second step no registry knows.
EngineDefs ==
    {[nodes |-> << <<"1", NodeDef(None, StrFunc("inc"), STANDARD, None, None)>>,
                   <<"2", NodeDef(None, StrFunc("res"), STANDARD, None, None)>> >>,
      edges |-> EdgeDict("2", None)],
     [nodes |-> << <<"1", NodeDef(None, StrFunc("inc"), LOOP, None, "lt_k")>> >>,
      edges |-> EdgeDict("1", None)],
     [nodes |-> << <<"1", NodeDef(None, StrFunc("inc"), CONDITIONAL, "to_2",
                                  None)>>,
                   <<"2", NodeDef(None, StrFunc("boom"), STANDARD, None, None)>> >>,
      edges |-> EdgeDict(None, None)],
     [nodes |-> << <<"1", NodeDef(None, StrFunc("inc"), STANDARD, None, None)>>,
                   <<"2", NodeDef(None, StrFunc("ghost"), STANDARD, None,
                                  None)>> >>,
      edges |-> EdgeDict("2", None)]}

GraphIds == {"g", "h"}

RunIds == {"run1", "run9"}

\* An engine without graphs and runs.
InitEngine ==
    /\ graphs = <<>>
    /\ last = NoCall
    /\ IdleRun

\* create_graph called while no run_graph call is in progress
CreateGraphCall(graph_id, d) ==
    /\ pc = "idle"
    /\ LET r == create_graph(graphs, graph_id, d.nodes, d.edges)
       IN  /\ graphs' = r.graphs
           /\ last' = [op |-> "create_graph", node_id |-> graph_id,
                       to_node |-> None, exc |-> r.exc]
    /\ UNCHANGED <<runVars, auxVars>>

CreateGraphAny ==
    \E graph_id \in GraphIds, d \in EngineDefs : CreateGraphCall(graph_id, d)

\* The caller builds its dict for the first run_graph call and passes the
\* same dict to the later ones.
RunEngine ==
    /\ Cardinality(DOMAIN runs) < MaxRuns
    /\ \E graph_id \in GraphIds \cup {"nope"}, start_node \in {None},
          tool_registry \in Registries :
        \E initial_state \in
              (IF caller = <<>> THEN {InitialState(0), InitialState(MaxK)}
               ELSE {caller}) :
            Call(graph_id, initial_state, start_node, tool_registry)

\* run_graph has returned or raised: its frame is gone.
Return ==
    /\ pc = "done"
    /\ pc' = "idle"
    /\ args' = NoArgs
    /\ current_node_id' = None
    /\ iteration' = 0
    /\ visited_nodes' = {}
    /\ node' = None
    /\ exc' = NoExc
    /\ outcome' = "none"
    /\ state' = None
    /\ executed' = <<>>
    /\ UNCHANGED <<graphs, runs, last, caller, auxVars>>

\* The run_graph call that created run run_id is over.
Ended(run_id) == run_id # state \/ pc = "done"

\* get_run_state(run_id), from any thread at any time; the query keeps what
\* the state read then and whether the run was over.
GetRunState(run_id) ==
    /\ query' = [run_id |-> run_id,
                 found |-> run_id \in DOMAIN runs,
                 ended |-> Ended(run_id),
                 result |-> get_run_state(runs, run_id)]
    /\ UNCHANGED <<graphs, last, runVars, thr, assigned>>

GetRunStateAny == \E run_id \in RunIds : GetRunState(run_id)

NextEngine ==
    \/ CreateGraphAny
    \/ RunEngine
    \/ Resolve
    \/ SelectStart
    \/ Enter
    \/ WhileExit
    \/ Invoke
    \/ RouteLoop
    \/ RouteConditional
    \/ RouteDefault
    \/ CapCheck
    \/ ExceptSetError
    \/ ExceptLog
    \/ Return
    \/ GetRunStateAny

SpecEngine == InitEngine /\ [][NextEngine]_vars

-----------------------------------------------------------------------------
(* Two threads calling run_graph on the same graph at the same time, up to  *)
(* the end of resolve_functions (line 111), one action per read or write of *)
(* node.func.  Both pass a registry that has every tool the graph names.    *)

\* What an f-string shows of a step reference.
FuncText(f) == IF f.tag = "str" THEN f.v ELSE "<function " \o f.v \o ">"

SetThread(t, r) == thr' = [thr EXCEPT ![t] = r]

\* The node thread t's iteration over nodes.values() is at.
ThreadNode(t) == graphs["g"].nodes[thr[t].i][2]

InitRace ==
    /\ \E d \in ChainGraphs :
          graphs = create_graph(<<>>, "g", d.nodes, d.edges).graphs
    /\ last = NoCall
    /\ IdleRun

\* lines 103-108: the thread's run_graph call creates and registers its state
RaceCall(t) ==
    /\ thr[t].pc = "idle"
    /\ runs' = [id \in DOMAIN runs \cup {NewRunId} |->
                  IF id = NewRunId
                  THEN WorkflowState(dict_copy(CallerDict, NewRunId), ChainState)
                  ELSE runs[id]]
    /\ caller' = ChainState
    /\ SetThread(t, [thr[t] EXCEPT !.pc = "enter"])
    /\ UNCHANGED <<graphs, last, args, pc, current_node_id, iteration,
                   visited_nodes, node, exc, outcome, state, executed, query,
                   assigned>>

\* lines 232-233: resolve_functions sets the registry and starts the loop
ResolveEnter(t) ==
    /\ thr[t].pc = "enter"
    /\ graphs' = [graphs EXCEPT !["g"].tool_registry = ChainRegistry]
    /\ SetThread(t, [thr[t] EXCEPT !.pc = "test", !.i = 1])
    /\ UNCHANGED <<last, runVars, query, assigned>>

\* lines 233-234 and 240-241: the next node, and what kind its func is
ResolveTest(t) ==
    /\ thr[t].pc = "test"
    /\ IF thr[t].i > Len(graphs["g"].nodes)
       THEN SetThread(t, [thr[t] EXCEPT !.pc = "ok"])
       ELSE CASE ThreadNode(t).func.tag = "str" ->
                    SetThread(t, [thr[t] EXCEPT !.pc = "has"])
              [] ThreadNode(t).func.tag = "callable" ->
                    SetThread(t, [thr[t] EXCEPT !.i = @ + 1])
              [] OTHER ->
                    SetThread(t, [thr[t] EXCEPT !.pc = "failed",
                        !.exc = "Node " \o ThreadNode(t).id
                                    \o " has invalid function"])
    /\ UNCHANGED <<graphs, last, runVars, query, assigned>>

\* lines 236 and 238-239: has_tool(node.func) with node.func read again
ResolveHas(t) ==
    /\ thr[t].pc = "has"
    /\ IF /\ ThreadNode(t).func.tag = "str"
          /\ ChainRegistry.present /\ has_tool(ChainRegistry, ThreadNode(t).func.v)
       THEN SetThread(t, [thr[t] EXCEPT !.pc = "get"])
       ELSE SetThread(t, [thr[t] EXCEPT !.pc = "failed",
                !.exc = "Tool '" \o FuncText(ThreadNode(t).func)
                            \o "' not found in registry"])
    /\ UNCHANGED <<graphs, last, runVars, query, assigned>>

\* line 237, right-hand side: get_tool(node.func) with node.func read again
\* (tools.py lines 27-31)
ResolveGet(t) ==
    /\ thr[t].pc = "get"
    /\ IF /\ ThreadNode(t).func.tag = "str"
          /\ has_tool(ChainRegistry, ThreadNode(t).func.v)
       THEN SetThread(t, [thr[t] EXCEPT !.pc = "set",
                !.tool = get_tool(ChainRegistry, ThreadNode(t).func.v)])
       ELSE SetThread(t, [thr[t] EXCEPT !.pc = "failed",
                !.exc = "Tool '" \o FuncText(ThreadNode(t).func)
                            \o "' not found"])
    /\ UNCHANGED <<graphs, last, runVars, query, assigned>>

\* line 237, the assignment to node.func
ResolveSet(t) ==
    /\ thr[t].pc = "set"
    /\ graphs' = [graphs EXCEPT !["g"].nodes[thr[t].i][2].func = thr[t].tool]
    /\ assigned' = Append(assigned, <<t, ThreadNode(t).id>>)
    /\ SetThread(t, [thr[t] EXCEPT !.pc = "test", !.i = @ + 1, !.tool = None])
    /\ UNCHANGED <<last, runVars, query>>

NextRace ==
    \E t \in Threads :
        \/ RaceCall(t)
        \/ ResolveEnter(t)
        \/ ResolveTest(t)
        \/ ResolveHas(t)
        \/ ResolveGet(t)
        \/ ResolveSet(t)

SpecRace == InitRace /\ [][NextRace]_vars

-----------------------------------------------------------------------------
(* create_graph calls that fail, between runs.  An engine starts without    *)
(* graphs; create_graph is called with definitions it accepts and with      *)
(* definitions it rejects, under an id that is new or taken, and the graphs *)
(* registered are run.  The graphs are chains of steps that do not raise,   *)
(* so only the actions of a plain run are enabled.                          *)

\* Definitions create_graph accepts: "1" alone, and "1" -> "2".
GoodDefs ==
    {ChainDef(1),
     [nodes |-> << <<"1", NodeDef(None, StrFunc("inc"), STANDARD, None, None)>>,
                   <<"2", NodeDef(None, StrFunc("res"), STANDARD, None, None)>> >>,
      edges |-> EdgeDict("2", None)]}

\* Definitions create_graph rejects: a second node without a step reference
\* (the key absent, or an empty name), a node of an unknown type, a second
\* edge to an absent node, and an edge from an absent node.
BadDefs ==
    {[nodes |-> << <<"1", NodeDef(None, StrFunc("inc"), STANDARD, None, None)>>,
                   <<"2", NodeDef(None, f, STANDARD, None, None)>> >>,
      edges |-> EdgeDict("2", None)] : f \in {Invalid(None), StrFunc("")}}
    \cup
    {[nodes |-> << <<"1", NodeDef(None, StrFunc("inc"), "bogus", None, None)>> >>,
      edges |-> <<>>],
     [nodes |-> << <<"1", NodeDef(None, StrFunc("inc"), STANDARD, None, None)>>,
                   <<"2", NodeDef(None, StrFunc("inc"), STANDARD, None, None)>> >>,
      edges |-> EdgeDict("2", "ghost")],
     [nodes |-> << <<"1", NodeDef(None, StrFunc("inc"), STANDARD, None, None)>> >>,
      edges |-> << <<"ghost", "1">> >>]}

CreateGraphRegister ==
    \E graph_id \in GraphIds, d \in GoodDefs \cup BadDefs :
        CreateGraphCall(graph_id, d)

RunRegister ==
    /\ Cardinality(DOMAIN runs) < MaxRuns
    /\ \E graph_id \in GraphIds : Call(graph_id, ChainState, None, ChainRegistry)

NextRegister ==
    \/ CreateGraphRegister
    \/ RunRegister
    \/ Resolve
    \/ SelectStart
    \/ Enter
    \/ Invoke
    \/ RouteDefault
    \/ CapCheck
    \/ Return

SpecRegister == InitEngine /\ [][NextRegister]_vars

-----------------------------------------------------------------------------
(* Properties *)

MaxIterationsError == "Maximum iterations reached"

Range(seq) == {seq[i] : i \in 1..Len(seq)}

Count(seq, v) == Cardinality({i \in 1..Len(seq) : seq[i] = v})

LastEntry(st) == st.execution_log[Len(st.execution_log)]

Entry(node_id, message, result) ==
    [node_id |-> node_id, message |-> message, result |-> result]

\* A run_graph call has created and registered its WorkflowState.
Registered == state \in DOMAIN runs

\* The graph's step references all resolve against the registry passed.
AllResolve(g) ==
    \A i \in 1..Len(g.nodes) :
        \/ g.nodes[i][2].func.tag = "callable"
        \/ /\ g.nodes[i][2].func.tag = "str"
           /\ args.tool_registry.present
           /\ g.nodes[i][2].func.v \in args.tool_registry.tools

\* The node run_graph starts from.
StartOf(g) ==
    IF Falsy(args.start_node) THEN get_start_node(g) ELSE args.start_node

\* The nodes met by following default edges from node id cur, at most
\* fuel edges far.
RECURSIVE EdgeWalk(_, _, _)
EdgeWalk(g, cur, fuel) ==
    IF Falsy(cur) \/ fuel = 0 THEN {}
    ELSE {cur} \cup EdgeWalk(g, get_next_node(g, cur), fuel - 1)

Plain(n) == n.node_type = STANDARD /\ n.func.v \in {"inc", "res"}

(* C1: every run_graph call that registered a WorkflowState has set its     *)
(* completion flag by the time it returns or raises.                        *)
C1_RunEndsCompleted == (pc = "done" /\ Registered) => St.completed

\* The graph is a single linear chain of n >= 1 standard nodes whose steps
\* do not fail, declared in edge order.
LinearChain(g) ==
    /\ Len(g.nodes) >= 1
    /\ \A i \in 1..Len(g.nodes) : Plain(g.nodes[i][2])
    /\ Len(g.edges) = Len(g.nodes) - 1
    /\ \A i \in 1..(Len(g.nodes) - 1) :
          get_next_node(g, g.nodes[i][1]) = g.nodes[i + 1][1]

(* C2: a run over a linear chain of N >= 1 standard nodes, started at its   *)
(* first node with every step reference resolving, has executed each node   *)
(* exactly once in edge order when it returns, with the completion flag set *)
(* and no error.                                                            *)
C2_ChainRunsEachNodeOnce ==
    (pc = "done" /\ Registered /\ LinearChain(graph) /\ AllResolve(graph)
        /\ Falsy(args.start_node))
    => /\ outcome = "returned"
       /\ executed = DictKeys(graph.nodes)
       /\ St.completed
       /\ St.error = None

\* The run went through the loop node "1" whose continuation lt_k returned
\* true exactly k times and then false.
LoopExited ==
    /\ pc = "done" /\ Registered /\ node = "1"
    /\ TheNode.node_type = LOOP /\ TheNode.loop_condition_func = "lt_k"
    /\ St.data["n"] = St.data["k"]
    /\ Len(St.execution_log) > 0
    /\ LastEntry(St) = Entry("1", "Loop condition not met, exiting loop", None)

(* C3: when the continuation of a loop node has returned true K times and   *)
(* then false (K + 1 <= 1000), the loop node has executed K + 1 times and   *)
(* the run returns with the completion flag set and without the 'maximum    *)
(* iterations reached' error.                                               *)
C3_LoopRunsKPlusOneTimes ==
    (LoopExited /\ St.data["k"] + 1 <= max_iterations)
    => /\ Count(executed, "1") = St.data["k"] + 1
       /\ outcome = "returned"
       /\ St.completed
       /\ St.error # MaxIterationsError

\* The run walks a cycle of default edges through standard nodes whose steps
\* do not fail: every node the walk from the start node meets is declared,
\* standard and has a default successor, and every step reference resolves.
CycleRun ==
    /\ Registered
    /\ AllResolve(graph)
    /\ ~Falsy(StartOf(graph))
    /\ \A id \in EdgeWalk(graph, StartOf(graph), Len(graph.nodes) + 1) :
          /\ DictHas(graph.nodes, id)
          /\ Plain(DictGet(graph.nodes, id, None))
          /\ ~Falsy(get_next_node(graph, id))

(* C4: a run over a cycle of default edges through standard nodes never     *)
(* executes more than 1000 steps, and when it returns it has executed       *)
(* exactly 1000, with the completion flag set and the error 'Maximum        *)
(* iterations reached'.                                                     *)
C4_CycleStopsAtCap ==
    CycleRun
    => /\ Len(executed) <= max_iterations
       /\ pc = "done"
          => /\ outcome = "returned"
             /\ Len(executed) = max_iterations
             /\ St.completed
             /\ St.error = MaxIterationsError

C4_Witness ==
    /\ CycleRun /\ pc = "done" /\ Len(executed) = max_iterations
    /\ Len(graph.nodes) = 2

(* C5: a resolution failure does not raise past run_graph: the call returns *)
(* a state with the completion flag set and the resolution message as its   *)
(* error, and no node has been executed.                                    *)
C5_ResolutionFailureIsRunError ==
    (pc = "done" /\ exc.at = "resolve")
    => /\ outcome = "returned"
       /\ St.completed
       /\ St.error = exc.msg
       /\ executed = <<>>

InLoopFailure == exc.at \in {"step", "route", "loop"}

(* C6: once a step, routing or loop-continuation callable has raised, no    *)
(* further step callable is invoked and the data keeps the writes made up   *)
(* to the failure (x is raised by every step call, the failing one too);    *)
(* run_graph returns instead of raising, with the failure's message as      *)
(* error, the completion flag set and the engine's error entry last in the  *)
(* log.                                                                     *)
C6_CallableFailureEndsRun ==
    InLoopFailure
    => /\ Len(executed) = exc.calls
       /\ St.data["x"] = args.initial_state["x"] + Len(executed)
       /\ pc \in {"except", "except_log", "done"}
       /\ pc = "done"
          => /\ outcome = "returned"
             /\ St.error = exc.msg
             /\ St.completed
             /\ LastEntry(St) = Entry("engine", "Error: " \o exc.msg, None)

C6_Witness ==
    /\ pc = "done" /\ exc.at = "step"
    /\ executed = <<"1", "2">>
    /\ St.data["x"] = 2

\* The step is the routing of a conditional node whose routing callable
\* returns.
ConditionalRoutes ==
    /\ pc = "route"
    /\ TheNode.node_type = CONDITIONAL /\ TheNode.condition_func # None
    /\ RouteCall(TheNode.condition_func, St).exc = None

(* C7: after a conditional node with a routing callable has executed, the   *)
(* next node is the identity the callable returned if that is a node of the *)
(* graph, and the node's default successor otherwise; with no next node the *)
(* run takes the natural completion path ('Workflow completed' logged, the  *)
(* completion flag set).                                                    *)
C7_ConditionalRouting ==
    [][ConditionalRoutes =>
        LET ret == RouteCall(TheNode.condition_func, St).ret
            default == get_next_node(graph, node)
            next_node == IF ret \in Range(DictKeys(graph.nodes)) THEN ret
                         ELSE default
        IN  /\ current_node_id' = next_node
            /\ IF next_node \in Range(DictKeys(graph.nodes))
               THEN pc' = "loop" /\ ~runs'[state].completed
               ELSE /\ pc' = "cap"
                    /\ runs'[state].completed
                    /\ LastEntry(runs'[state])
                         = Entry("engine", "Workflow completed", None)]_vars

\* The conditional node "1" has jumped to itself although its default edge
\* leads to "2".
C7_Witness ==
    /\ pc = "loop" /\ node = "1" /\ iteration = 1
    /\ TheNode.node_type = CONDITIONAL /\ TheNode.condition_func = "to_1"
    /\ get_next_node(graph, "1") = "2"
    /\ current_node_id = "1"

(* C8: once the completion flag of a run's WorkflowState is true, no step   *)
(* of the engine changes that state.                                        *)
C8_CompletedStateFrozen ==
    [][(Registered /\ St.completed) => runs'[state] = St]_vars

TheGraph == graphs["g"]

(* C9: add_node with an id the graph already has fails and leaves the       *)
(* existing node unchanged.                                                 *)
C9_DuplicateNodeRejected ==
    [][(last'.op = "add_node" /\ DictHas(TheGraph.nodes, last'.node_id))
        => (last'.exc # None /\ graphs' = graphs)]_vars

(* C10: add_edge fails and leaves the edges unchanged when an endpoint is   *)
(* not a node of the graph, and otherwise makes to_node the default         *)
(* successor of from_node; in every graph add_node and add_edge calls can   *)
(* build, both endpoints of every edge are nodes and no node has two        *)
(* default successors.                                                      *)
C10_EdgesStayValid ==
    /\ [](/\ KeysUnique(TheGraph.edges)
          /\ \A i \in 1..Len(TheGraph.edges) :
                /\ DictHas(TheGraph.nodes, TheGraph.edges[i][1])
                /\ DictHas(TheGraph.nodes, TheGraph.edges[i][2]))
    /\ [][last'.op = "add_edge" =>
            IF /\ DictHas(TheGraph.nodes, last'.node_id)
               /\ DictHas(TheGraph.nodes, last'.to_node)
            THEN /\ last'.exc = None
                 /\ get_next_node(graphs'["g"], last'.node_id) = last'.to_node
                 /\ \A id \in GraphNodeIds \ {last'.node_id} :
                       get_next_node(graphs'["g"], id) = get_next_node(TheGraph, id)
                 /\ graphs'["g"].nodes = TheGraph.nodes
            ELSE last'.exc # None /\ graphs' = graphs]_vars

\* add_edge has just failed on a graph in which both nodes have a successor.
C10_Witness ==
    /\ last.op = "add_edge" /\ last.exc # None
    /\ Len(TheGraph.edges) = 2

\* The positions, in declaration order, of the nodes no default edge leads to.
NoIncoming(g) ==
    {i \in 1..Len(g.nodes) :
        \A j \in 1..Len(g.edges) : g.edges[j][2] # g.nodes[i][1]}

(* C11: get_start_node returns None for a graph without nodes; otherwise    *)
(* the first node in declaration order that no default edge leads to, and   *)
(* the first declared node when every node is the target of an edge.  It    *)
(* depends on the declared nodes and edges only: resolving the step         *)
(* references and setting the tool registry does not change it.             *)
C11_StartNodeInferred ==
    /\ get_start_node(TheGraph) =
          IF Len(TheGraph.nodes) = 0 THEN None
          ELSE IF NoIncoming(TheGraph) # {}
          THEN TheGraph.nodes[CHOOSE i \in NoIncoming(TheGraph) :
                    \A j \in NoIncoming(TheGraph) : i <= j][1]
          ELSE TheGraph.nodes[1][1]
    /\ get_start_node(resolve_functions(TheGraph, ChainRegistry).graph)
          = get_start_node(TheGraph)

\* "2" was declared before "1" and only "2" has an incoming edge: the start
\* node is the second declared node.
C11_Witness ==
    /\ DictKeys(TheGraph.nodes) = <<"2", "1">>
    /\ TheGraph.edges = << <<"2", "2">> >>
    /\ get_start_node(TheGraph) = "1"

\* Every step reference of the graph is a callable: resolve_functions has
\* succeeded on it.
AllCallable(g) == \A i \in 1..Len(g.nodes) : g.nodes[i][2].func.tag = "callable"

\* The step is a create_graph call that registers a new Graph under id.
Registers(id) ==
    pc = "idle" /\ pc' = "idle" /\ last'.op = "create_graph" /\ last'.node_id = id

(* C12: resolve_functions called on a graph it has already resolved, in the *)
(* same or a later run and with whatever registry, succeeds and leaves      *)
(* every node as it is; and as long as a Graph stays registered, no step    *)
(* changes a node whose step reference is a callable.                       *)
C12_ResolutionIdempotentOneWay ==
    [][/\ (pc = "resolve" /\ pc' # "resolve" /\ AllCallable(graph))
          => /\ pc' = "start"
             /\ graphs'[args.graph_id].nodes = graph.nodes
       /\ \A id \in DOMAIN graphs :
            ~Registers(id)
            => /\ id \in DOMAIN graphs'
               /\ \A i \in 1..Len(graphs[id].nodes) :
                    graphs[id].nodes[i][2].func.tag = "callable"
                    => graphs'[id].nodes[i] = graphs[id].nodes[i]]_vars

\* The second run has resolved, without any registry, the graph the first
\* run resolved.
C12_Witness ==
    /\ pc = "start" /\ state = "run2"
    /\ ~args.tool_registry.present
    /\ Len(graph.nodes) = 2 /\ AllCallable(graph)

\* The step is a run_graph call naming a graph the engine does not have.
CallsUnknownGraph ==
    pc = "idle" /\ pc' # "idle" /\ args'.graph_id \notin DOMAIN graphs

(* C13: run_graph called with a graph_id that is not registered raises      *)
(* 'Graph <id> not found', creates no WorkflowState and leaves the run      *)
(* registry and the graph registry as they were.                            *)
C13_UnknownGraphRejected ==
    [][CallsUnknownGraph
        => /\ pc' = "done" /\ outcome' = "raised"
           /\ exc'.msg = "Graph " \o args'.graph_id \o " not found"
           /\ state' = None
           /\ runs' = runs
           /\ graphs' = graphs]_vars

\* run_graph("h") has raised on an engine that has the graph "g" and the
\* state of an earlier run.
C13_Witness ==
    /\ pc = "done" /\ exc.at = "lookup" /\ args.graph_id = "h"
    /\ DOMAIN graphs = {"g"}
    /\ DOMAIN runs = {"run1"}

(* C14: the WorkflowState a run_graph call creates starts from the content  *)
(* of the caller's dict, and no write a run makes to its data changes the   *)
(* caller's dict or the data of another run started from the same dict.     *)
C14_InitialStateCopied ==
    [][/\ caller # <<>> => caller' = caller
       /\ (pc = "idle" /\ pc' = "resolve") => runs'[state'].data = caller'
       /\ \A id \in DOMAIN runs :
             id # state => runs'[id].data = runs[id].data]_vars

\* The second run from the same dict is under way: the first run counted two
\* loop continuations and the second one so far, the caller's dict none.
C14_Witness ==
    /\ state = "run2" /\ pc = "invoke"
    /\ runs["run1"].data["n"] = 2 /\ runs["run1"].data["x"] = 3
    /\ runs["run2"].data["n"] = 1 /\ runs["run2"].data["x"] = 1
    /\ caller = InitialState(2)

\* The step is a run_graph call that gets as far as creating its state.
CreatesState == pc = "idle" /\ pc' = "resolve"

(* C15: get_run_state finds nothing under a run id no run_graph call has    *)
(* issued; a WorkflowState is in the run registry under a new id of its own *)
(* from the step that creates it, and no step removes or replaces an entry; *)
(* and what get_run_state read of a completed run once its run_graph call   *)
(* was over is what the registry still holds, whatever runs, registrations  *)
(* and queries came after.                                                  *)
C15_RunRegistryStable ==
    /\ [](/\ (query.run_id # None /\ query.run_id \notin DOMAIN runs)
             => ~query.found /\ query.result = None
          /\ (query.found /\ query.ended /\ query.result.completed)
             => get_run_state(runs, query.run_id) = query.result
          /\ state # None => state \in DOMAIN runs)
    /\ [][/\ CreatesState
             => state' \notin DOMAIN runs /\ state' \in DOMAIN runs'
          /\ \A id \in DOMAIN runs :
                /\ id \in DOMAIN runs'
                /\ (id # state \/ pc = "done") => runs'[id] = runs[id]]_vars

\* The completed first run was queried after it had ended; since then a
\* second graph was registered and a second run has failed in a step.
C15_Witness ==
    /\ query.run_id = "run1" /\ query.found /\ query.ended
    /\ query.result.completed /\ query.result.error = None
    /\ last.node_id = "h" /\ DOMAIN graphs = {"g", "h"}
    /\ state = "run2" /\ pc = "done" /\ exc.at = "step"

\* How many times node_id's step reference was assigned.
Assignments(node_id) ==
    Cardinality({i \in 1..Len(assigned) : assigned[i][2] = node_id})

(* C16: when two threads run resolve_functions on the same graph at the     *)
(* same time with a registry that has every tool, neither raises, no node's *)
(* step reference is assigned twice, and when both are through every step   *)
(* reference was assigned exactly once.                                     *)
C16_NoResolutionRace ==
    /\ \A t \in Threads : thr[t].exc = None
    /\ \A i \in 1..Len(TheGraph.nodes) : Assignments(TheGraph.nodes[i][1]) <= 1
    /\ (\A t \in Threads : thr[t].pc = "ok")
       => \A i \in 1..Len(TheGraph.nodes) :
             Assignments(TheGraph.nodes[i][1]) = 1

\* run_graph has left its loop at a current node id that is not a node of
\* the graph.
AtMissingNode ==
    /\ pc \in {"cap", "done"}
    /\ ~Falsy(current_node_id)
    /\ ~DictHas(graph.nodes, current_node_id)

(* C17: when the current node id is not a node of the graph (a start_node   *)
(* the graph does not have), run_graph ends the loop at once with the error *)
(* 'Node <id> not found in graph': no callable has been invoked, the        *)
(* state's current_node is as it was, and run_graph returns the state with  *)
(* that error.                                                              *)
C17_MissingNodeEndsRun ==
    AtMissingNode
    => /\ St.error = "Node " \o current_node_id \o " not found in graph"
       /\ executed = <<>>
       /\ St.current_node = None
       /\ iteration = 1
       /\ pc = "done" => outcome = "returned"

\* run_graph was started at "ghost" on a graph of two nodes and has returned.
C17_Witness ==
    /\ pc = "done" /\ AtMissingNode
    /\ args.start_node = "ghost" /\ current_node_id = "ghost"
    /\ Len(graph.nodes) = 2
    /\ St.error = "Node ghost not found in graph"

\* run_graph has returned after routing left no next node: at least one node
\* was executed, nothing was raised and the current node id is empty.
RoutedToNothing ==
    /\ pc = "done" /\ Registered /\ outcome = "returned"
    /\ exc = NoExc
    /\ executed # <<>>
    /\ Falsy(current_node_id)

(* C18: whenever routing leaves no next node (a standard node or the        *)
(* fallback of a conditional node without default successor, a loop node    *)
(* whose continuation returned false, a loop node that continues without    *)
(* default successor), run_graph returns with 'Workflow completed' last in  *)
(* the log, the completion flag set and no error.                           *)
C18_NoNextNodeCompletes ==
    RoutedToNothing
    => /\ St.completed
       /\ St.error = None
       /\ LastEntry(St) = Entry("engine", "Workflow completed", None)

\* The step is the routing of a loop node whose continuation callable
\* returns.
LoopRoutes ==
    /\ pc = "route"
    /\ TheNode.node_type = LOOP /\ TheNode.loop_condition_func # None
    /\ LoopCall(TheNode.loop_condition_func, St).exc = None

ExitEntries(st) ==
    {i \in 1..Len(st.execution_log) :
        st.execution_log[i].message = "Loop condition not met, exiting loop"}

(* C19: after a loop node with a continuation callable has executed, the    *)
(* callable is called once (the state shows the writes of one call); when   *)
(* it returns true the loop node's entry 'Loop condition met, continuing    *)
(* loop' is logged and the next node is the default successor; when it      *)
(* returns false 'Loop condition not met, exiting loop' is logged and the   *)
(* next node is None, whatever the default edge.  After the exit entry no   *)
(* node is entered or executed: the entry stays last in the log.            *)
C19_LoopContinuation ==
    /\ [][LoopRoutes =>
            LET r == LoopCall(TheNode.loop_condition_func, St)
            IN  /\ runs'[state].data = r.state.data
                /\ executed' = executed
                /\ pc' = "loop"
                /\ IF r.ret
                   THEN /\ current_node_id' = get_next_node(graph, node)
                        /\ LastEntry(runs'[state]) =
                             Entry(node, "Loop condition met, continuing loop",
                                   None)
                   ELSE /\ current_node_id' = None
                        /\ LastEntry(runs'[state]) =
                             Entry(node, "Loop condition not met, exiting loop",
                                   None)]_vars
    /\ [](Registered
          => \A i \in ExitEntries(St) :
                /\ i = Len(St.execution_log)
                /\ Falsy(current_node_id)
                /\ pc \in {"loop", "cap", "done"})

\* The loop node "1" ran three times, its continuation returned true twice
\* and then false, and the run returned without running "2", the default
\* successor of "1".
C19_Witness ==
    /\ pc = "done" /\ Registered
    /\ ExitEntries(St) # {}
    /\ executed = <<"1", "2", "1", "2", "1">>
    /\ get_next_node(graph, "1") = "2"
    /\ St.data["n"] = 2

\* The step is the routing of a loop node without continuation callable or
\* of a conditional node without routing callable.
LacksCallable ==
    /\ pc = "route"
    /\ \/ TheNode.node_type = LOOP /\ TheNode.loop_condition_func = None
       \/ TheNode.node_type = CONDITIONAL /\ TheNode.condition_func = None

(* C20: a loop node without continuation callable and a conditional node    *)
(* without routing callable are routed like a standard node: no callable is *)
(* called, the next node is the default successor, and without one the run  *)
(* takes the natural completion path ('Workflow completed' logged, the      *)
(* completion flag set).                                                    *)
C20_MissingCallableRoutesDefault ==
    [][LacksCallable =>
        LET next_node == get_next_node(graph, node)
        IN  /\ current_node_id' = next_node
            /\ exc' = exc
            /\ runs'[state].data = St.data
            /\ IF next_node = None
               THEN /\ pc' = "cap"
                    /\ runs'[state] =
                         [log(St, "engine", "Workflow completed", None)
                            EXCEPT !.completed = TRUE]
               ELSE /\ pc' = "loop"
                    /\ runs'[state] = St]_vars

\* A loop node without continuation callable has run and handed over to "2",
\* which ended the run.
C20_Witness ==
    /\ pc = "done" /\ Registered
    /\ executed = <<"1", "2">>
    /\ DictGet(graph.nodes, "1", None).node_type = LOOP
    /\ DictGet(graph.nodes, "1", None).loop_condition_func = None
    /\ St.completed /\ St.error = None

\* Log entry e is the 'Executing node' entry of a node of the graph.
IsExecuting(e) ==
    /\ DictHas(graph.nodes, e.node_id)
    /\ e.message = "Executing node: " \o DictGet(graph.nodes, e.node_id, None).name

\* The entries a step appends to the log of the run in progress.
Appended ==
    SubSeq(runs'[state].execution_log, Len(St.execution_log) + 1,
           Len(runs'[state].execution_log))

(* C21: within a run the execution log only grows at its end; its first     *)
(* entry is the engine's 'Starting workflow from node' entry naming the     *)
(* start node; entering a node appends its 'Executing node' entry and sets  *)
(* current_node, and both are in place when its step callable is invoked;   *)
(* the call appends a 'Node completed' entry with the result exactly when   *)
(* the step returned a non-empty result; and no other step appends an       *)
(* 'Executing node' entry or invokes a step callable, so these entries name *)
(* the nodes in the order they were executed.                               *)
C21_LogInExecutionOrder ==
    /\ [](Registered
          => /\ Len(St.execution_log) > 0
                => St.execution_log[1] =
                     Entry("engine",
                        "Starting workflow from node: " \o StartOf(graph), None)
             /\ pc = "invoke"
                => /\ St.current_node = node
                   /\ LastEntry(St) =
                        Entry(node, "Executing node: " \o TheNode.name, None))
    /\ [][Registered
          => /\ Len(St.execution_log) <= Len(runs'[state].execution_log)
             /\ SubSeq(runs'[state].execution_log, 1, Len(St.execution_log))
                   = St.execution_log
             /\ IF pc = "loop" /\ pc' = "invoke"
                THEN /\ Appended = <<Entry(node', "Executing node: "
                            \o DictGet(graph.nodes, node', None).name, None)>>
                     /\ node' = current_node_id
                ELSE \A i \in 1..Len(Appended) : ~IsExecuting(Appended[i])
             /\ IF pc = "invoke" /\ pc' # "invoke"
                THEN LET r == CallFunc(TheNode.func, St)
                     IN  /\ executed' = Append(executed, node)
                         /\ Appended =
                               IF r.exc = None /\ ~Falsy(r.ret)
                               THEN <<Entry(node, "Node completed", r.ret)>>
                               ELSE <<>>
                ELSE executed' = executed]_vars

\* "1" returned a result, "2" did not, and the run completed.
C21_Witness ==
    /\ pc = "done" /\ Registered /\ St.completed
    /\ executed = <<"1", "2">>
    /\ Len(St.execution_log) = 5
    /\ St.execution_log[3] = Entry("1", "Node completed", "result")

\* The steps of a run_graph call once it has been made.
RunSteps ==
    \/ Resolve
    \/ SelectStart
    \/ Enter
    \/ WhileExit
    \/ Invoke
    \/ RouteLoop
    \/ RouteConditional
    \/ RouteDefault
    \/ CapCheck
    \/ ExceptSetError
    \/ ExceptLog

\* How far each position of run_graph is from the return, within one pass
\* of the while loop.
Rank ==
    CASE pc = "resolve" -> 7
      [] pc = "start" -> 6
      [] pc = "invoke" -> 5
      [] pc = "route" -> 4
      [] pc = "loop" -> 3
      [] pc = "except" -> 2
      [] pc = "cap" -> 1
      [] pc = "except_log" -> 1
      [] OTHER -> 0

\* A bound on the steps run_graph still takes: three per pass the cap
\* still allows, and the rank within the pass.
Variant == 3 * (max_iterations - iteration) + Rank

Running == pc \notin {"idle", "done"}

(* C22: whatever the graph, the start node and the callables, a run_graph   *)
(* call invokes step callables at most 1000 times and comes to its end:     *)
(* while it runs some step of it can be taken, and every step lowers a      *)
(* natural number, so it returns within 3 * 1000 + 7 steps.                 *)
C22_RunTerminatesWithinCap ==
    /\ [](/\ Len(executed) <= max_iterations
          /\ Variant \in Nat
          /\ Running => ENABLED RunSteps)
    /\ [][Running => Variant' < Variant]_vars

\* A conditional node that keeps routing to itself has been run 1000 times
\* and run_graph has returned.
C22_Witness ==
    /\ pc = "done" /\ Registered
    /\ Len(executed) = max_iterations
    /\ TheNode.node_type = CONDITIONAL /\ TheNode.condition_func = "to_1"
    /\ get_next_node(graph, "1") = None

\* lines 167-171: the end of a pass of the while loop in an engine that
\* keeps no visited set (lines 173-176 left out); it says nothing of
\* visited_nodes.
AdvanceUntracked(st, next_node) ==
    /\ current_node_id' = next_node
    /\ IF Falsy(next_node)
       THEN /\ SetState([log(st, "engine", "Workflow completed", None)
                            EXCEPT !.completed = TRUE])
            /\ pc' = "cap"
       ELSE /\ SetState(st)
            /\ pc' = "loop"

\* lines 157-163 and 167-171 in the engine that keeps no visited set
RouteConditionalUntracked ==
    /\ pc = "route"
    /\ ~HasLoopCondition(TheNode)
    /\ HasRouting(TheNode)
    /\ LET r == RouteCall(TheNode.condition_func, St)
       IN  IF r.exc # None
           THEN /\ SetState(r.state)
                /\ exc' = Exc("route", r.exc, Len(executed))
                /\ pc' = "except"
                /\ UNCHANGED current_node_id
           ELSE /\ AdvanceUntracked(r.state,
                      PickRoute(r.ret, get_next_node(graph, current_node_id)))
                /\ UNCHANGED exc
    /\ UNCHANGED <<graphs, last, auxVars, args, iteration, node, outcome, state,
                   executed>>

\* lines 164-171 in the engine that keeps no visited set
RouteDefaultUntracked ==
    /\ pc = "route"
    /\ ~HasLoopCondition(TheNode)
    /\ ~HasRouting(TheNode)
    /\ AdvanceUntracked(St, get_next_node(graph, current_node_id))
    /\ UNCHANGED <<graphs, last, auxVars, args, iteration, node, exc, outcome, state,
                   executed>>

StepWrites ==
    Cardinality({i \in 1..Len(executed) :
        DictGet(graph.nodes, executed[i], None).func.tag = "callable"})

\* The graph is the single standard node "1" running inc, with no edge.
SingleStandardNode ==
    /\ DictKeys(graph.nodes) = <<"1">>
    /\ graph.edges = <<>>
    /\ DictGet(graph.nodes, "1", None).node_type = STANDARD
    /\ DictGet(graph.nodes, "1", None).func = Callable("inc")

(* C24: one WorkflowState is threaded through a run. run_graph keeps the   *)
(* state it registered; a step is handed the data the earlier steps left and  *)
(* what it leaves is what the run holds next, so the data is the initial   *)
(* data with one step's write per invocation; and the run from x = 1 over  *)
(* a single standard node that adds 1 to x and has no successor completes  *)
(* with x = 2 and at least two log entries.                                *)
C24_StateThreadedThroughRun ==
    /\ [](Registered
            => /\ pc = "resolve" => St.data = args.initial_state
               /\ pc = "done"
                    => /\ St.data.x = args.initial_state.x + StepWrites
                       /\ St.data.k = args.initial_state.k
               /\ (/\ pc = "done"
                   /\ SingleStandardNode
                   /\ Falsy(args.start_node)
                   /\ args.initial_state.x = 1)
                    => /\ St.completed /\ St.error = None
                       /\ St.data.x = 2
                       /\ Len(St.execution_log) >= 2
                       /\ executed = <<"1">>)
    /\ [][Running
            => /\ state' = state
               /\ runs'[state].data.x =
                     IF pc = "invoke" /\ pc' # "invoke"
                        /\ TheNode.func.tag = "callable"
                     THEN St.data.x + 1
                     ELSE St.data.x]_vars

\* The run from x = 1 over the single standard node has completed with x = 2.
C24_Witness ==
    /\ pc = "done" /\ Registered /\ SingleStandardNode
    /\ args.initial_state.x = 1
    /\ St.data.x = 2
    /\ St.completed
    /\ Len(St.execution_log) = 3

\* The nodes of the code review workflow in edge order.
ReviewChain == <<"extract", "complexity", "detect", "suggest", "loop_check">>

\* What should_continue_loop reads from a data dict.
QualityOf(d) == DictGet(d, "quality_score", 0)
ThresholdOf(d) == DictGet(d, "quality_threshold", 80)
LoopIterationOf(d) == DictGet(d, "loop_iteration", 0)
MaxIterationsOf(d) == DictGet(d, "max_iterations", 5)

\* The step that calls the continuation callable of loop_check, and its
\* verdict: the engine goes back to extract when it returned true.
ContinuationStep == pc = "route" /\ pc' # "route" /\ node = "loop_check"
Continued == current_node_id' = "extract"

\* C25 as claimed: loop_iteration never exceeds max_iterations and the chain
\* is executed at most max_iterations + 1 times.
C25_AsClaimed ==
    Registered
      => /\ LoopIterationOf(St.data) <= MaxIterationsOf(St.data)
         /\ Count(executed, "extract") <= MaxIterationsOf(St.data) + 1

(* C25, amended: in a run of code_review_agent from the inferred start      *)
(* node the nodes run in chain order from extract; the continuation of      *)
(* loop_check returns true only while quality_score < quality_threshold and *)
(* loop_iteration < max_iterations, adds 1 to loop_iteration exactly when   *)
(* it returns true, and nothing else writes loop_iteration or               *)
(* max_iterations; so loop_iteration never exceeds the larger of its        *)
(* initial value and max_iterations, the chain is executed at most          *)
(* max(0, max_iterations - initial loop_iteration) + 1 times, and the run   *)
(* ends after loop_check, with quality_score >= quality_threshold or        *)
(* loop_iteration >= max_iterations.                                        *)
C25_LoopBoundedByCounter ==
    /\ [](Registered
            => /\ pc # "except"
               /\ \A i \in 1..Len(executed) :
                     executed[i] = ReviewChain[((i - 1) % 5) + 1]
               /\ MaxIterationsOf(St.data) = MaxIterationsOf(args.initial_state)
               /\ LoopIterationOf(St.data) <=
                     Max(LoopIterationOf(args.initial_state),
                         MaxIterationsOf(St.data))
               /\ Count(executed, "extract") <=
                     Max(0, MaxIterationsOf(St.data)
                              - LoopIterationOf(args.initial_state)) + 1
               /\ pc = "done"
                    => /\ LastEntry(St) =
                            Entry("loop_check",
                                  "Loop condition not met, exiting loop", None)
                       /\ executed[Len(executed)] = "loop_check"
                       /\ \/ QualityOf(St.data) >= ThresholdOf(St.data)
                          \/ LoopIterationOf(St.data) >= MaxIterationsOf(St.data))
    /\ [][Running
            => IF ContinuationStep
               THEN /\ Continued
                        => /\ QualityOf(St.data) < ThresholdOf(St.data)
                           /\ LoopIterationOf(St.data) < MaxIterationsOf(St.data)
                    /\ LoopIterationOf(runs'[state].data) =
                          LoopIterationOf(St.data) + (IF Continued THEN 1 ELSE 0)
                    /\ ~Continued => current_node_id' = None
               ELSE LoopIterationOf(runs'[state].data) = LoopIterationOf(St.data)]_vars

\* From loop_iteration = 1 and max_iterations = 2, with the quality below the
\* threshold, the continuation granted one more pass: the chain ran twice
\* and the run ended after loop_check with loop_iteration = 2.
C25_Witness ==
    /\ pc = "done" /\ Registered
    /\ LoopIterationOf(args.initial_state) = 1
    /\ MaxIterationsOf(args.initial_state) = 2
    /\ DictHas(args.initial_state, "max_iterations")
    /\ QualityOf(St.data) < ThresholdOf(St.data)
    /\ executed = ReviewChain \o ReviewChain
    /\ LoopIterationOf(St.data) = 2

\* A create_graph call that raised, and one that returned.
CreateFailed ==
    pc = "idle" /\ pc' = "idle" /\ last'.op = "create_graph" /\ last'.exc # None

CreateReturned ==
    pc = "idle" /\ pc' = "idle" /\ last'.op = "create_graph" /\ last'.exc = None

(* C26: graph registration is all-or-nothing. A create_graph call that      *)
(* raises leaves the graph registry as it was: no graph is added under the  *)
(* id, and a graph registered under it before is the same graph; run after  *)
(* the failed call, that graph executes its nodes and completes. A call     *)
(* that returns has registered the graph under the id.                      *)
C26_RegistrationAllOrNothing ==
    /\ [][/\ CreateFailed => graphs' = graphs
          /\ CreateReturned
               => /\ last'.node_id \in DOMAIN graphs'
                  /\ \A id \in DOMAIN graphs :
                        id # last'.node_id => graphs'[id] = graphs[id]]_vars
    /\ []((/\ pc = "done"
            /\ last.op = "create_graph" /\ last.exc # None
            /\ args.graph_id = last.node_id)
             => IF args.graph_id \in DOMAIN graphs
                THEN /\ outcome = "returned"
                     /\ St.completed /\ St.error = None
                     /\ executed = DictKeys(graph.nodes)
                ELSE outcome = "raised" /\ exc.at = "lookup")

\* After graph "g" was registered with two nodes, create_graph for "g"
\* failed on an edge to an absent node; the run of "g" made after that has
\* executed the two nodes of the old graph and completed.
C26_Witness ==
    /\ pc = "done" /\ Registered
    /\ last.op = "create_graph" /\ last.node_id = "g"
    /\ last.exc = "Target node ghost not found"
    /\ args.graph_id = "g"
    /\ St.completed /\ St.error = None
    /\ executed = <<"1", "2">>

====
